---- MODULE Spec2Model ----
(***************************************************************************)
(* Model of the gedo memory substrate (MallocAllocator, LinearAllocator),  *)
(* the allocator-backed Array<T> / String, and the Buffer scanning         *)
(* primitives of Gedo.h / Gedo.cpp.                                        *)
(*                                                                         *)
(* Addresses and size_t values are WordBits wide; every size_t expression  *)
(* of the source is reduced with Wrap.  Memory is a function from the      *)
(* mapped addresses to bytes; a byte never written holds Garbage.          *)
(***************************************************************************)
EXTENDS Integers, Sequences, FiniteSets, TLC

\* ------------------------------------------------------------------------
\* Bounds of the model
\* ------------------------------------------------------------------------
WordBits == 8
SizeMod == 2 ^ WordBits

SmallArena == 1
SmallHeap == 2
ArrayArena == 24
ArrayHeap == 24
MaxIssued == 2
MaxLive == 1
MaxPush == 10
MaxReserve == 9
MaxCalls == 3
MaxPairCalls == 4
MaxLen == 3
MaxPrior == 2
MaxSortLen == 13      \* longest array handed to QuickSort
MaxSearchLen == 3     \* longest array handed to BinarySearch
MaxStrings == 2       \* most strings handed to ConcatStrings
MaxStringLen == 2     \* longest of them
MaxDim == 4           \* most rows and most columns of a Matrix
MAX_VARIABLES == 3    \* slots of State::vars (255 in AhmedLab.h)

\* ------------------------------------------------------------------------
\* Memory layout
\* ------------------------------------------------------------------------
NULL == 0
ArenaBase == 16
HeapBase == ArenaBase + ArrayArena + 16
Garbage == 255
SizeofT == 1

Wrap(x) == x % SizeMod

MemoryBlock == [data |-> NULL, size |-> 0]

VARIABLES
    mem,        \* byte contents of the mapped addresses
    heap,       \* the region malloc serves requests from
    defaultAllocator, \* the allocator calls without an explicit one use
    arena,      \* LinearAllocator::arena
    offset,     \* LinearAllocator::offset
    heapLive,   \* blocks handed out by malloc and not yet freed
    fatal,      \* the process died in GEDO_ASSERT or in a wild memory access
    issued,     \* arena blocks returned since the last ResetAllocator
    last,       \* the last call: its arguments, results and the state before
    arr,        \* the Array under test: allocator, block, count
    pushed,     \* the values passed to push_back so far
    calls,      \* the number of Array member functions called so far
    buffer,     \* the Buffer being scanned: data, size, cursor
    number,     \* the double ParseFloat and StringToFloat write their result to
    integer,    \* the int64_t StringToInt writes its result to
    lexResults, \* the LexerResult of the last Tokenize: tokens, success, errorLocation
    console,    \* what the last ProcessInput printed after its error message
    other,      \* a second Array, the target of copies and moves
    pArray,     \* the array p handed to QuickSort and BinarySearch
    found,      \* what the last BinarySearch returned
    strings,    \* the strings handed to ConcatStrings
    state,      \* State: vars and varsCount
    matrix      \* the Matrix under test: rows, cols, data

\* the variables of the algorithms, the variable store and the matrices
algoVars == <<pArray, found, strings, state, matrix>>

vars == <<mem, heap, defaultAllocator, arena, offset, heapLive, fatal, issued, last, arr, pushed, calls, buffer, number, integer, lexResults, console, other, algoVars>>

\* The allocator state the member functions read and write.
Mach == [mem |-> mem, heap |-> heap, arena |-> arena, offset |-> offset,
         heapLive |-> heapLive, fatal |-> fatal]

SetMach(M) ==
    /\ mem' = M.mem
    /\ heap' = M.heap
    /\ arena' = M.arena
    /\ offset' = M.offset
    /\ heapLive' = M.heapLive
    /\ fatal' = M.fatal

\* ------------------------------------------------------------------------
\* Memory utilities (Gedo.cpp)
\* ------------------------------------------------------------------------
\* The addresses block.data .. block.data + block.size - 1.
BlockBytes(block) == block.data .. (block.data + block.size - 1)

IsPointerInsideMemoryBlock(ptr, block) ==
    LET begin == block.data
        end == Wrap(block.data + block.size)
    IN  ptr >= begin /\ ptr < end

IsMemoryBlockInside(big, small) ==
    /\ IsPointerInsideMemoryBlock(small.data, big)
    /\ IsPointerInsideMemoryBlock(Wrap(small.data + small.size), big)

ZeroMemoryBlock_Skipped(m, block) == m

ZeroMemoryBlock(m, block) ==
    [a \in DOMAIN m |-> IF a \in BlockBytes(block) THEN 0 ELSE m[a]]

memcpy_Skipped(m, dst, src, n) == m

memcpy(m, dst, src, n) ==
    [a \in DOMAIN m |->
        IF a >= dst /\ a < dst + n
        THEN (IF (src + (a - dst)) \in DOMAIN m
              THEN m[src + (a - dst)] ELSE Garbage)
        ELSE m[a]]

\* malloc: first fit over the heap; a zero-byte request still takes a chunk.
Footprint(b) == b.data .. (b.data + (IF b.size = 0 THEN 0 ELSE b.size - 1))

FreeAt(region, live, p, n) ==
    /\ p + (IF n = 0 THEN 0 ELSE n - 1) \in BlockBytes(region)
    /\ \A b \in live :
          Footprint(b) \cap (p .. (p + (IF n = 0 THEN 0 ELSE n - 1))) = {}

malloc(region, live, n) ==
    LET fits == {p \in BlockBytes(region) : FreeAt(region, live, p, n)}
    IN  IF fits = {} THEN NULL
        ELSE CHOOSE p \in fits : \A q \in fits : p <= q

\* ------------------------------------------------------------------------
\* LinearAllocator (Gedo.cpp)
\* ------------------------------------------------------------------------
CreateLinearAllocator(bytes) ==
    [data |-> ArenaBase, size |-> bytes]

LinearResetAllocator_KeepsOffset(M) == M

LinearResetAllocator(M) == [M EXCEPT !.offset = 0]

LinearAllocateMemoryBlock_NoBoundCheck(M, bytes, crash) ==
    LET result == [data |-> Wrap(M.offset + M.arena.data), size |-> bytes]
        mapped == result.data + result.size <= M.arena.data + M.arena.size
        dead == (~mapped) /\ crash
    IN  [M |-> [M EXCEPT !.offset = Wrap(M.offset + bytes),
                         !.fatal = dead],
         block |-> result,
         ok |-> ~dead]

\* crash resolves the undefined behaviour of a memset that leaves the arena:
\* the process either dies in it or survives it.
LinearAllocateMemoryBlock(M, bytes, crash) ==
    IF Wrap(M.offset + bytes) <= M.arena.size
    THEN LET result == [data |-> Wrap(M.offset + M.arena.data), size |-> bytes]
             mapped == result.data + result.size <= M.arena.data + M.arena.size
             dead == (~mapped) /\ crash
         IN  [M |-> [M EXCEPT !.offset = Wrap(M.offset + bytes),
                              !.mem = ZeroMemoryBlock(M.mem, result),
                              !.fatal = dead],
              block |-> result,
              ok |-> ~dead]
    ELSE [M |-> [M EXCEPT !.fatal = TRUE], block |-> MemoryBlock, ok |-> FALSE]

LinearFreeMemoryBlock_Reclaims(M, block) ==
    IF IsMemoryBlockInside(M.arena, block)
    THEN [M |-> [M EXCEPT !.offset = block.data - M.arena.data],
          block |-> [data |-> NULL, size |-> 0], ok |-> TRUE]
    ELSE [M |-> M, block |-> block, ok |-> FALSE]

LinearFreeMemoryBlock(M, block) ==
    IF IsMemoryBlockInside(M.arena, block)
    THEN [M |-> M, block |-> [data |-> NULL, size |-> 0], ok |-> TRUE]
    ELSE [M |-> M, block |-> block, ok |-> FALSE]

\* ------------------------------------------------------------------------
\* MallocAllocator (Gedo.cpp)
\* ------------------------------------------------------------------------
MallocResetAllocator(M) == M

\* the rest of AllocateMemoryBlock once malloc has returned p
MallocBlockAt(M, p, bytes) ==
    IF p = NULL
    THEN [M |-> [M EXCEPT !.fatal = TRUE], block |-> MemoryBlock, ok |-> FALSE]
    ELSE [M |-> [M EXCEPT !.mem = ZeroMemoryBlock(M.mem, [data |-> p, size |-> bytes]),
                          !.heapLive = M.heapLive \cup {[data |-> p, size |-> bytes]}],
          block |-> [data |-> p, size |-> bytes],
          ok |-> TRUE]

MallocAllocateMemoryBlock(M, bytes) ==
    MallocBlockAt(M, malloc(M.heap, M.heapLive, bytes), bytes)

MallocFreeMemoryBlock(M, block) ==
    IF block.data = NULL \/ ~(\E b \in M.heapLive : b.data = block.data)
    THEN [M |-> [M EXCEPT !.fatal = TRUE], block |-> block, ok |-> FALSE]
    ELSE [M |-> [M EXCEPT !.heapLive =
                     {b \in M.heapLive : b.data # block.data}],
          block |-> [data |-> NULL, size |-> 0],
          ok |-> TRUE]

\* a virtual call through the null Allocator* of a moved-from Array reads
\* its table at address 0, where the process dies
NullAllocatorCall(M) ==
    [M |-> [M EXCEPT !.fatal = TRUE], block |-> MemoryBlock, ok |-> FALSE]

Allocate(M, bytes, allocator, crash) ==
    IF allocator = "linear"
    THEN LinearAllocateMemoryBlock(M, bytes, crash)
    ELSE IF allocator = "malloc"
    THEN MallocAllocateMemoryBlock(M, bytes)
    ELSE NullAllocatorCall(M)

Deallocate(M, block, allocator) ==
    IF allocator = "linear"
    THEN LinearFreeMemoryBlock(M, block)
    ELSE IF allocator = "malloc"
    THEN MallocFreeMemoryBlock(M, block)
    ELSE NullAllocatorCall(M)


ResetAllocator(M, allocator) ==
    IF allocator = "linear"
    THEN LinearResetAllocator(M)
    ELSE MallocResetAllocator(M)

\* ------------------------------------------------------------------------
\* Array<T> (Gedo.h); an array is [allocator, block, count], and every
\* member function maps the array and the allocator state to the new ones
\* ------------------------------------------------------------------------
\* Array() = default: no block, no elements, the default allocator
DefaultArray(allocator) ==
    [allocator |-> allocator, block |-> MemoryBlock, count |-> 0]

capacity(A) == A.block.size \div SizeofT

size(A) == A.count

\* the address of data()[i]
ElementAddress(A, i) == A.block.data + i * SizeofT

\* data()[i], as operator[] returns it once its assertion has passed
Index(A, m, i) == m[ElementAddress(A, i)]

\* the elements the Array holds: data()[0 .. size() - 1], as far as its
\* block reaches
Elements(A, m) ==
    [i \in 1 .. (IF size(A) < capacity(A) THEN size(A) ELSE capacity(A)) |->
        IF ElementAddress(A, i - 1) \in DOMAIN m
        THEN m[ElementAddress(A, i - 1)] ELSE Garbage]

clear_Skipped(A, M) == [A |-> A, M |-> M]

clear(A, M) == [A |-> [A EXCEPT !.count = 0], M |-> M]

pop_back(A, M) == [A |-> [A EXCEPT !.count = Wrap(A.count + SizeMod - 1)], M |-> M]

\* operator[](i) = v: the assertion i < count, then the store
WriteElement(A, M, i, v, crash) ==
    IF i < A.count
    THEN [A |-> A,
          M |-> IF ElementAddress(A, i) \in DOMAIN M.mem
                THEN [M EXCEPT !.mem[ElementAddress(A, i)] = v]
                ELSE [M EXCEPT !.fatal = crash]]
    ELSE [A |-> A, M |-> [M EXCEPT !.fatal = TRUE]]

ReadElement_Unchecked(A, M, i, crash) ==
    IF ElementAddress(A, i) \in DOMAIN M.mem
    THEN [A |-> A, M |-> M, value |-> M.mem[ElementAddress(A, i)]]
    ELSE [A |-> A, M |-> [M EXCEPT !.fatal = crash], value |-> Garbage]

\* operator[](i) read: GEDO_ASSERT(i < size()), then data()[i]; an element
\* outside every mapped address is a wild read
ReadElement(A, M, i, crash) ==
    IF i < size(A)
    THEN IF ElementAddress(A, i) \in DOMAIN M.mem
         THEN [A |-> A, M |-> M, value |-> M.mem[ElementAddress(A, i)]]
         ELSE [A |-> A, M |-> [M EXCEPT !.fatal = crash], value |-> Garbage]
    ELSE [A |-> A, M |-> [M EXCEPT !.fatal = TRUE], value |-> Garbage]

CopyInto_SharesBlock(s, r) == [A |-> s, M |-> r.M]

\* the rest of a copy once Allocate(s.block.size) has returned r
CopyInto(s, r) ==
    IF r.M.fatal
    THEN [A |-> [allocator |-> s.allocator, block |-> MemoryBlock, count |-> 0],
          M |-> r.M]
    ELSE [A |-> [allocator |-> s.allocator, block |-> r.block, count |-> s.count],
          M |-> [r.M EXCEPT !.mem = memcpy(r.M.mem, r.block.data,
                                          s.block.data, r.block.size)]]

\* Array(const Array& s)
CopyConstruct(s, M, crash) ==
    CopyInto(s, Allocate(M, s.block.size, s.allocator, crash))

\* operator=(const Array& s): the block d held is not released
CopyAssign(d, s, M, crash) ==
    CopyInto(s, Allocate(M, s.block.size, s.allocator, crash))

MoveConstruct_KeepsSource(s) == [D |-> s, S |-> s]

\* Array(Array&& s): D is the new Array, S is s afterwards
MoveConstruct(s) ==
    [D |-> [allocator |-> s.allocator, block |-> s.block, count |-> s.count],
     S |-> [allocator |-> "null", block |-> MemoryBlock, count |-> 0]]

\* operator=(Array&& s): the block d held is not released
MoveAssign(d, s) ==
    [D |-> [allocator |-> s.allocator, block |-> s.block, count |-> s.count],
     S |-> [allocator |-> "null", block |-> MemoryBlock, count |-> 0]]

ReserveInto_NoCopy(A, r) == [A |-> [A EXCEPT !.block = r.block], M |-> r.M]

\* the rest of reserve once Allocate has returned r
ReserveInto(A, r) ==
    IF r.M.fatal
    THEN [A |-> A, M |-> r.M]
    ELSE [A |-> [A EXCEPT !.block = r.block],
          M |-> IF A.block.data # NULL
                THEN Deallocate([r.M EXCEPT !.mem = memcpy(r.M.mem, r.block.data,
                                                         A.block.data, A.block.size)],
                                A.block, A.allocator).M
                ELSE r.M]

reserve(A, M, s, crash) ==
    IF capacity(A) < s
    THEN ReserveInto(A, Allocate(M, Wrap(s * SizeofT), A.allocator, crash))
    ELSE [A |-> A, M |-> M]

\* count = s, unless the process died before
SetCount(r, s) ==
    IF r.M.fatal THEN r
    ELSE [A |-> [r.A EXCEPT !.count = s], M |-> r.M]

resize(A, M, s, crash) ==
    SetCount(IF capacity(A) < s THEN reserve(A, M, s, crash)
                                ELSE [A |-> A, M |-> M], s)

GrownSize_AddsEight(s) == Wrap(s + 8)

\* the capacity push_back asks resize for when the array is full
GrownSize(s) == IF s # 0 THEN Wrap(2 * s) ELSE 8

\* data()[count++] = d; a store outside the mapped memory is undefined
\* behaviour that the process dies in or survives
StoreElement(r, d, crash) ==
    IF r.M.fatal THEN r
    ELSE [A |-> [r.A EXCEPT !.count = Wrap(r.A.count + 1)],
          M |-> IF ElementAddress(r.A, r.A.count) \in DOMAIN r.M.mem
                THEN [r.M EXCEPT !.mem[ElementAddress(r.A, r.A.count)] = d]
                ELSE [r.M EXCEPT !.fatal = crash]]

push_back(A, M, d, crash) ==
    StoreElement(IF size(A) >= capacity(A)
                 THEN SetCount(resize(A, M, GrownSize(size(A)), crash), size(A))
                 ELSE [A |-> A, M |-> M],
                 d, crash)

\* ------------------------------------------------------------------------
\* Strings and parsing (Gedo.cpp); characters are their ASCII codes, a C
\* string is the sequence of its characters before the terminating 0
\* ------------------------------------------------------------------------
AppendChar_Dropped(A, M, c, crash) == [A |-> A, M |-> M]

AppendChar(A, M, c, crash) == push_back(A, M, c, crash)

\* ~Array(): the block goes back to the allocator
DestroyArray(A, M) ==
    IF A.block.data # NULL THEN Deallocate(M, A.block, A.allocator).M ELSE M

\* the C string that starts at address a
RECURSIVE CStringAt(_, _)
CStringAt(m, a) ==
    IF a \notin DOMAIN m \/ m[a] = 0 THEN << >>
    ELSE << m[a] >> \o CStringAt(m, a + 1)

StringLength(str) == Len(str)

CreateBufferFromString(text) ==
    [data |-> text, size |-> StringLength(text), cursor |-> 0]

\* buffer.data[i]; data[size] is the terminator of the C string
CharAt(B, i) == IF i < Len(B.data) THEN B.data[i + 1] ELSE 0

Peek(B) == CharAt(B, B.cursor)

IsLetter(c) == (c >= 97 /\ c <= 122) \/ (c >= 65 /\ c <= 90)

IsDigit(c) == c >= 48 /\ c <= 57

IsWhiteSpace(c) == c \in {32, 10, 9, 11, 12, 13}

IsLetterOrDigit(c) == IsLetter(c) \/ IsDigit(c)

Advance(B, n) == [B EXCEPT !.cursor = Wrap(B.cursor + n)]

RECURSIVE SkipToNextLine(_)
SkipToNextLine(B) ==
    IF B.cursor < B.size /\ Peek(B) # 10
    THEN SkipToNextLine(Advance(B, 1))
    ELSE B

RECURSIVE SkipWhiteSpaces(_)
SkipWhiteSpaces(B) ==
    IF B.cursor < B.size /\ IsWhiteSpace(Peek(B))
    THEN SkipWhiteSpaces(Advance(B, 1))
    ELSE B

SkipSingleLineComment(B) ==
    IF CharAt(B, B.cursor + 0) = 92 /\ CharAt(B, B.cursor + 1) = 92
    THEN SkipToNextLine(Advance(B, 2))
    ELSE B

\* a double: a finite value, or +infinity once a factor overflowed
Double(v) == [val |-> v, inf |-> FALSE]

\* basePower after multiplying 1.0 by 10.0 power times; the counter is a
\* size_t, so a power below zero is a huge count and the product is +inf
BasePower(power) ==
    IF power >= SizeMod \div 2 THEN [val |-> 0, inf |-> TRUE]
    ELSE Double(10 ^ power)

RECURSIVE CountDots(_)
CountDots(str) ==
    IF str = << >> THEN 0
    ELSE (IF Head(str) = 46 THEN 1 ELSE 0) + CountDots(Tail(str))

\* the index of the only '.', or the length when there is none
RECURSIVE DotIndex(_, _)
DotIndex(str, i) ==
    IF i >= Len(str) THEN Len(str)
    ELSE IF str[i + 1] = 46 THEN i ELSE DotIndex(str, i + 1)

RECURSIVE FloatDigits(_, _, _, _)
FloatDigits(str, i, power, result) ==
    IF i >= Len(str) THEN result
    ELSE IF str[i + 1] # 46
         THEN FloatDigits(str, i + 1, Wrap(power + SizeMod - 1),
                 IF str[i + 1] # 48
                 THEN [val |-> result.val + (str[i + 1] - 48) * BasePower(power).val,
                       inf |-> result.inf \/ BasePower(power).inf]
                 ELSE result)
         ELSE FloatDigits(str, i + 1, Wrap(SizeMod - 1), result)

StringToFloat(str, old) ==
    LET length == StringLength(str)
        dot == DotIndex(str, 0)
    IN  IF length = 0 \/ CountDots(str) > 1
        THEN [ok |-> FALSE, result |-> old]
        ELSE [ok |-> TRUE,
              result |-> FloatDigits(str, 0, Wrap(dot + SizeMod - 1), Double(0))]

\* the second loop of StringToInt: every character other than '0' adds
\* (c - '0') * 10^power, the '-' included
RECURSIVE IntDigits(_, _, _, _)
IntDigits(str, i, power, result) ==
    IF i >= Len(str) THEN result
    ELSE IntDigits(str, i + 1, Wrap(power + SizeMod - 1),
            IF str[i + 1] # 48
            THEN result + (str[i + 1] - 48) * (10 ^ power)
            ELSE result)

\* the number of '-' characters the first loop of StringToInt accepts is
\* at most one
RECURSIVE CountMinus(_)
CountMinus(str) ==
    IF str = << >> THEN 0
    ELSE (IF Head(str) = 45 THEN 1 ELSE 0) + CountMinus(Tail(str))

\* result *= -1 when a '-' was seen
Negated(isNegative, result) == IF isNegative THEN 0 - result ELSE result

StringToInt(str, old) ==
    IF StringLength(str) = 0 \/ CountMinus(str) > 1
    THEN [ok |-> FALSE, result |-> old]
    ELSE [ok |-> TRUE,
          result |-> Negated(CountMinus(str) = 1,
                             IntDigits(str, 0, Wrap(StringLength(str) + SizeMod - 1), 0))]

\* the loop of ParseFloat over the String data = r.A; ok is FALSE when it
\* returned at a second '.'
RECURSIVE FloatLoop(_, _, _, _)
FloatLoop(B, r, dotAdded, crash) ==
    IF (~r.M.fatal) /\ B.cursor < B.size /\ (IsDigit(Peek(B)) \/ Peek(B) = 46)
    THEN IF Peek(B) = 46 /\ dotAdded
         THEN [B |-> B, A |-> r.A, M |-> r.M, ok |-> FALSE]
         ELSE FloatLoop(Advance(B, 1), AppendChar(r.A, r.M, Peek(B), crash),
                        dotAdded \/ Peek(B) = 46, crash)
    ELSE [B |-> B, A |-> r.A, M |-> r.M, ok |-> TRUE]

\* return StringToFloat(data.data(), result), then data is destroyed
FloatConvert(B, t, old) ==
    IF t.M.fatal
    THEN [B |-> B, M |-> t.M, ok |-> FALSE, result |-> old]
    ELSE [B |-> B, M |-> DestroyArray(t.A, t.M)]
         @@ StringToFloat(CStringAt(t.M.mem, t.A.block.data), old)

FloatFinish_IgnoresSecondDot(l, old, crash) ==
    IF l.M.fatal
    THEN [B |-> l.B, M |-> l.M, ok |-> FALSE, result |-> old]
    ELSE FloatConvert(l.B, AppendChar(l.A, l.M, 0, crash), old)

\* the rest of ParseFloat once its loop has ended in l
FloatFinish(l, old, crash) ==
    IF l.M.fatal
    THEN [B |-> l.B, M |-> l.M, ok |-> FALSE, result |-> old]
    ELSE IF ~l.ok
    THEN [B |-> l.B, M |-> DestroyArray(l.A, l.M), ok |-> FALSE, result |-> old]
    ELSE FloatConvert(l.B, AppendChar(l.A, l.M, 0, crash), old)

ParseFloat(B, M, old, crash) ==
    IF IsDigit(Peek(B))
    THEN FloatFinish(FloatLoop(B, [A |-> DefaultArray(defaultAllocator), M |-> M],
                               FALSE, crash),
                     old, crash)
    ELSE [B |-> B, M |-> M, ok |-> FALSE, result |-> old]

RECURSIVE IdentifierLoop(_, _, _)
IdentifierLoop(B, r, crash) ==
    IF (~r.M.fatal) /\ B.cursor < B.size
          /\ (IsLetterOrDigit(Peek(B)) \/ Peek(B) = 95)
    THEN IdentifierLoop(Advance(B, 1), AppendChar(r.A, r.M, Peek(B), crash), crash)
    ELSE [B |-> B, A |-> r.A, M |-> r.M, ok |-> ~r.M.fatal]

ParseIdentifier(B, A, M, crash) ==
    IF IsLetter(Peek(B))
    THEN IdentifierLoop(B, clear(A, M), crash)
    ELSE [B |-> B, A |-> A, M |-> M, ok |-> FALSE]

RECURSIVE StringLiteralLoop(_, _, _)
StringLiteralLoop(B, r, crash) ==
    IF (~r.M.fatal) /\ B.cursor < B.size /\ Peek(B) # 34
    THEN StringLiteralLoop(Advance(B, 1), AppendChar(r.A, r.M, Peek(B), crash), crash)
    ELSE [B |-> B, A |-> r.A, M |-> r.M, ok |-> ~r.M.fatal]

\* buffer.cursor++ after the loop, skipping the closing quote
SkipClosingQuote(l) ==
    IF l.M.fatal THEN l ELSE [l EXCEPT !.B = Advance(l.B, 1)]

ParseStringLiteral(B, A, M, crash) ==
    IF Peek(B) = 34
    THEN SkipClosingQuote(StringLiteralLoop(Advance(B, 1), clear(A, M), crash))
    ELSE [B |-> B, A |-> A, M |-> M, ok |-> FALSE]

CompareWordAndSkip(B, word) ==
    LET length == StringLength(word)
    IN  IF Wrap(B.cursor + length) < B.size
        THEN IF \E i \in 0 .. (length - 1) : CharAt(B, B.cursor + i) # word[i + 1]
             THEN [B |-> B, ok |-> FALSE]
             ELSE [B |-> Advance(B, length), ok |-> TRUE]
        ELSE [B |-> B, ok |-> FALSE]

\* ------------------------------------------------------------------------
\* Initial states
\* ------------------------------------------------------------------------
\* an Array object that has not been constructed yet
Unconstructed == [allocator |-> "none", block |-> MemoryBlock, count |-> 0]

NoCall == [op |-> "none", prevOp |-> "none", arg |-> 0,
           blockIn |-> MemoryBlock, blockOut |-> MemoryBlock,
           ok |-> TRUE, offsetIn |-> 0, dirty |-> FALSE,
           countIn |-> 0, capIn |-> 0, cursorIn |-> 0, word |-> << >>,
           elemsIn |-> << >>, arrKept |-> TRUE, numberKept |-> TRUE,
           peerKept |-> TRUE, who |-> "arr", srcIn |-> Unconstructed,
           value |-> 0, maxRead |-> -1,
           arenaIn |-> MemoryBlock, mapIn |-> << >>,
           added |-> [rows |-> 0, cols |-> 0, data |-> "NULL"]]

\* LexerResult{}: no tokens, success = false, errorLocation = 0
LexerResult == [tokens |-> << >>, success |-> FALSE, errorLocation |-> 0]


Call(op) == [NoCall EXCEPT !.op = op, !.prevOp = last.op]

\* the process right after CreateLinearAllocator(arenaBytes), with heapBytes
\* of heap left for malloc: the arena is zeroed, nothing else is written
InitMachine(arenaBytes, heapBytes, allocator, text) ==
    /\ arena = CreateLinearAllocator(arenaBytes)
    /\ heap = [data |-> HeapBase, size |-> heapBytes]
    /\ mem = ZeroMemoryBlock(
                [a \in BlockBytes(CreateLinearAllocator(arenaBytes))
                       \cup (HeapBase .. (HeapBase + heapBytes - 1)) |-> Garbage],
                CreateLinearAllocator(arenaBytes))
    /\ defaultAllocator = allocator
    /\ offset = 0
    /\ heapLive = {}
    /\ fatal = FALSE
    /\ issued = << >>
    /\ last = NoCall
    /\ arr = DefaultArray(allocator)
    /\ pushed = << >>
    /\ calls = 0
    /\ buffer = CreateBufferFromString(text)
    /\ number = Double(0)
    /\ integer = 0
    /\ lexResults = LexerResult
    /\ console = << >>
    /\ other = Unconstructed

\* nothing sorted or searched, no strings, State{}, Matrix{}
AlgoIdle ==
    /\ pArray = << >>
    /\ found = [index |-> 0, oob |-> FALSE]
    /\ strings = << >>
    /\ state = [vars |-> << >>, varsCount |-> 0]
    /\ matrix = [rows |-> 0, cols |-> 0, data |-> "NULL"]

InitWith(arenaBytes, heapBytes, allocator, text) ==
    /\ InitMachine(arenaBytes, heapBytes, allocator, text)
    /\ AlgoIdle

\* ------------------------------------------------------------------------
\* The allocators driven directly by a caller
\* ------------------------------------------------------------------------
AllocSizes(allocator) ==
    IF allocator = "linear"
    THEN (0 .. (arena.size + 1)) \cup ((SizeMod - arena.size) .. (SizeMod - 1))
    ELSE 0 .. (heap.size - 1)

IssuedBlocks == {issued[i] : i \in 1 .. Len(issued)}

FreeArgs(allocator) ==
    IF allocator = "linear"
    THEN IssuedBlocks \cup
         {[data |-> d, size |-> s] :
             d \in {NULL} \cup ((arena.data - 1) .. (arena.data + arena.size)),
             s \in 0 .. (arena.size + 1)}
    ELSE heapLive

WasDirty(m, block) == \E a \in BlockBytes(block) \cap DOMAIN m : m[a] # 0

InitAlloc ==
    \E bytes \in 1 .. SmallArena, allocator \in {"linear", "malloc"} :
        InitWith(bytes, SmallHeap, allocator, << >>)

\* r is what Allocate returned
AllocateReturned(bytes, r) ==
    /\ SetMach(r.M)
    /\ issued' = IF r.ok /\ defaultAllocator = "linear"
                 THEN Append(issued, r.block) ELSE issued
    /\ last' = [Call("Allocate") EXCEPT
                   !.arg = bytes, !.blockOut = r.block, !.ok = r.ok,
                   !.offsetIn = offset,
                   !.dirty = r.ok /\ WasDirty(mem, r.block)]

AllocateCall(bytes, crash) ==
    /\ ~fatal
    /\ Len(issued) < MaxIssued
    /\ Cardinality(heapLive) < MaxLive
    /\ AllocateReturned(bytes, Allocate(Mach, bytes, defaultAllocator, crash))
    /\ UNCHANGED <<defaultAllocator, arr, pushed, calls, buffer, number, integer, lexResults, console, other, algoVars>>

\* r is what Deallocate returned
DeallocateReturned(block, r) ==
    /\ SetMach(r.M)
    /\ last' = [Call("Deallocate") EXCEPT
                   !.blockIn = block, !.blockOut = r.block, !.ok = r.ok,
                   !.offsetIn = offset, !.arenaIn = arena]

DeallocateCall(block) ==
    /\ ~fatal
    /\ DeallocateReturned(block, Deallocate(Mach, block, defaultAllocator))
    /\ UNCHANGED <<defaultAllocator, issued, arr, pushed, calls, buffer, number, integer, lexResults, console, other, algoVars>>

ResetCall ==
    /\ ~fatal
    /\ SetMach(ResetAllocator(Mach, defaultAllocator))
    /\ issued' = << >>
    /\ last' = [Call("Reset") EXCEPT !.offsetIn = offset]
    /\ UNCHANGED <<defaultAllocator, arr, pushed, calls, buffer, number, integer, lexResults, console, other, algoVars>>

\* the owner of a block stores a non-zero byte into it
Store(a) ==
    /\ ~fatal
    /\ a \in DOMAIN mem
    /\ \E b \in IssuedBlocks \cup heapLive : a \in BlockBytes(b)
    /\ mem' = [mem EXCEPT ![a] = 1]
    /\ last' = Call("Store")
    /\ UNCHANGED <<heap, defaultAllocator, arena, offset, heapLive, fatal,
                   issued, arr, pushed, calls, buffer, number, integer, lexResults, console, other, algoVars>>

NextAlloc ==
    \/ \E bytes \in AllocSizes(defaultAllocator), crash \in BOOLEAN :
          AllocateCall(bytes, crash)
    \/ \E block \in FreeArgs(defaultAllocator) : DeallocateCall(block)
    \/ ResetCall
    \/ \E a \in DOMAIN mem : Store(a)

SpecAlloc == InitAlloc /\ [][NextAlloc]_vars

\* ------------------------------------------------------------------------
\* Properties of the allocators (checked under SpecAlloc)
\* ------------------------------------------------------------------------
Linear == defaultAllocator = "linear"

RECURSIVE SumSizes(_)
SumSizes(blocks) ==
    IF blocks = << >> THEN 0 ELSE Head(blocks).size + SumSizes(Tail(blocks))

\* the byte range of small lies fully inside the byte range of big
RangeInside(big, small) ==
    /\ small.data >= big.data
    /\ small.data + small.size <= big.data + big.size

\* C4: the arena's offset never exceeds the arena's size, whatever the
\* sequence of allocate, free and reset calls and whatever their arguments.
C4_OffsetWithinArena == offset <= arena.size

\* a request so large that offset + bytes wraps around was accepted
C4_Witness ==
    /\ Linear
    /\ last.op = "Allocate"
    /\ last.offsetIn + last.arg >= SizeMod
    /\ last.blockOut.size = last.arg
    /\ last.prevOp = "Deallocate"

\* C5: between two resets the blocks returned by the arena are pairwise
\* disjoint, lie inside the arena, their sizes sum to at most arena.size,
\* and offset never decreases.
C5_IssuedBlocksDisjoint ==
    Linear =>
        /\ \A i, j \in 1 .. Len(issued) :
              i < j => BlockBytes(issued[i]) \cap BlockBytes(issued[j]) = {}
        /\ \A i \in 1 .. Len(issued) : RangeInside(arena, issued[i])
        /\ SumSizes(issued) <= arena.size
        /\ (last.op = "Allocate" /\ last.ok => offset >= last.offsetIn)

\* C6: ResetAllocator sets offset to 0, and an allocation of arena.size
\* right after it succeeds and returns the whole arena.
C6_ResetThenFullAllocation ==
    Linear =>
        /\ (last.op = "Reset" => offset = 0)
        /\ (last.op = "Allocate" /\ last.prevOp = "Reset"
                /\ last.arg = arena.size
              => /\ last.ok
                 /\ ~fatal
                 /\ last.blockOut = [data |-> arena.data, size |-> arena.size])

\* the whole arena was handed out again after a reset, over bytes that an
\* earlier block had written to
C6_Witness ==
    /\ Linear
    /\ last.op = "Allocate"
    /\ last.prevOp = "Reset"
    /\ last.arg = arena.size
    /\ last.dirty
    /\ last.ok

\* C7: LinearAllocator::FreeMemoryBlock returns true exactly for the blocks
\* whose byte range lies fully inside the arena, and then nulls the block.
C7_FreeTrueIffInsideArena ==
    Linear /\ last.op = "Deallocate" =>
        /\ last.ok <=> RangeInside(arena, last.blockIn)
        /\ last.ok => last.blockOut = [data |-> NULL, size |-> 0]

\* the bytes of the arena ar a following AllocateMemoryBlock can hand out
\* when the offset is off
Available(ar, off) == {ar.data + k : k \in off .. (ar.size - 1)}

\* C22: LinearAllocator::FreeMemoryBlock changes neither offset nor arena,
\* whatever block it is given: the bytes a following AllocateMemoryBlock can
\* hand out are the ones it could hand out before the free, and it is
\* ResetAllocator that makes the whole arena available again.
C22_FreeKeepsOffsetAndArena ==
    Linear =>
        /\ (last.op = "Deallocate" =>
                /\ offset = last.offsetIn
                /\ arena = last.arenaIn
                /\ Available(arena, offset) = Available(last.arenaIn, last.offsetIn))
        /\ (last.op = "Reset" => Available(arena, offset) = BlockBytes(arena))

\* an issued block was freed while part of the arena was handed out
C22_Witness ==
    /\ Linear
    /\ last.op = "Deallocate"
    /\ last.blockIn \in IssuedBlocks
    /\ last.blockIn.size > 0
    /\ last.offsetIn > 0
    /\ Available(arena, offset) # BlockBytes(arena)

\* C23: AllocateMemoryBlock(bytes) called with offset + bytes > arena.size
\* ends in the assertion: no usable block is returned, and offset and the
\* bytes of the arena stay as they were.
C23_ExhaustionIsFatal ==
    Linear /\ last.op = "Allocate" /\ last.offsetIn + last.arg > arena.size =>
        /\ fatal
        /\ ~last.ok
        /\ last.blockOut = MemoryBlock
        /\ offset = last.offsetIn

\* C8: a block returned by a successful AllocateMemoryBlock(n) has size n
\* and only zero bytes, on both allocators.
C8_AllocatedBlockIsZeroed ==
    last.op = "Allocate" /\ last.ok =>
        /\ last.blockOut.size = last.arg
        /\ \A a \in BlockBytes(last.blockOut) \cap DOMAIN mem : mem[a] = 0

\* an arena block handed out after a reset over bytes written before it
C8_Witness ==
    /\ Linear
    /\ last.op = "Allocate"
    /\ last.prevOp = "Reset"
    /\ last.ok
    /\ last.dirty
    /\ last.arg > 0
    /\ RangeInside(arena, last.blockOut)

\* ------------------------------------------------------------------------
\* One Array driven by a caller
\* ------------------------------------------------------------------------
ArrayCall(op, arg, r) ==
    /\ arr' = r.A
    /\ SetMach(r.M)
    /\ last' = [Call(op) EXCEPT !.arg = arg, !.ok = ~r.M.fatal,
                   !.countIn = size(arr), !.capIn = capacity(arr),
                   !.blockIn = arr.block, !.elemsIn = Elements(arr, mem)]
    /\ calls' = calls + 1
    /\ UNCHANGED <<defaultAllocator, issued, buffer, number, integer, lexResults, console, other, algoVars>>

PushBackCall(d, crash) ==
    /\ ~fatal
    /\ calls < MaxCalls
    /\ ArrayCall("push_back", d, push_back(arr, Mach, d, crash))
    /\ UNCHANGED pushed

PopBackCall ==
    /\ ~fatal
    /\ calls < MaxCalls
    /\ ArrayCall("pop_back", 0, pop_back(arr, Mach))
    /\ UNCHANGED pushed

ClearCall ==
    /\ ~fatal
    /\ calls < MaxCalls
    /\ ArrayCall("clear", 0, clear(arr, Mach))
    /\ UNCHANGED pushed

ResizeCall(s, crash) ==
    /\ ~fatal
    /\ calls < MaxCalls
    /\ ArrayCall("resize", s, resize(arr, Mach, s, crash))
    /\ UNCHANGED pushed

ReserveCall(s, crash) ==
    /\ ~fatal
    /\ calls < MaxCalls
    /\ ArrayCall("reserve", s, reserve(arr, Mach, s, crash))
    /\ UNCHANGED pushed

InitArray ==
    \E allocator \in {"linear", "malloc"} :
        InitWith(ArrayArena, ArrayHeap, allocator, << >>)

NextArray ==
    \/ \E crash \in BOOLEAN : PushBackCall(1, crash)
    \/ PopBackCall
    \/ ClearCall
    \/ \E s \in 0 .. MaxReserve, crash \in BOOLEAN : ResizeCall(s, crash)
    \/ \E s \in 0 .. MaxReserve, crash \in BOOLEAN : ReserveCall(s, crash)

SpecArray == InitArray /\ [][NextArray]_vars

\* N sequential push_back calls on a default-constructed Array
PushValues == {1, 2}

PushOnly(d, crash) ==
    /\ ~fatal
    /\ Len(pushed) < MaxPush
    /\ ArrayCall("push_back", d, push_back(arr, Mach, d, crash))
    /\ pushed' = Append(pushed, d)

InitPush ==
    \E allocator \in {"linear", "malloc"} :
        InitWith(ArrayArena, ArrayHeap, allocator, << >>)

NextPush == \E d \in PushValues, crash \in BOOLEAN : PushOnly(d, crash)

SpecPush == InitPush /\ [][NextPush]_vars

\* ------------------------------------------------------------------------
\* Properties of Array
\* ------------------------------------------------------------------------
Max(a, b) == IF a > b THEN a ELSE b

\* C1: size() <= capacity() in every state reachable by push_back, pop_back,
\* clear, resize and reserve from a default-constructed Array.
C1_SizeWithinCapacity == size(arr) <= capacity(arr)

\* C2: after N push_back calls on a default-constructed Array, size() is N,
\* capacity() is at least N and element i is the i-th value pushed.
C2_PushedValuesRetrievable ==
    /\ ~fatal
    /\ size(arr) = Len(pushed)
    /\ capacity(arr) >= Len(pushed)
    /\ \A i \in 0 .. (Len(pushed) - 1) : Index(arr, mem, i) = pushed[i + 1]

\* nine values, not all equal, pushed through the growth from 8 to 16 on
\* the arena
C2_Witness ==
    /\ arr.allocator = "linear"
    /\ Len(pushed) = 9
    /\ capacity(arr) = 16
    /\ pushed[1] # pushed[2]
    /\ pushed[8] # pushed[9]

\* C3 as stated: a push_back on a full Array leaves capacity
\* max(8, 2 * old capacity); on a non-full Array it leaves capacity alone.
C3_GrowthIsMaxOfEightAndDouble ==
    last.op = "push_back" /\ last.ok =>
        /\ last.countIn = last.capIn
              => capacity(arr) = Max(8, 2 * last.capIn)
        /\ last.countIn < last.capIn => capacity(arr) = last.capIn

\* C3 amended: a push_back that returns, on a full Array of capacity c with
\* 2 * c representable, leaves capacity 8 when c = 0 and 2 * c otherwise;
\* on a non-full Array it leaves capacity alone.
C3_GrowthIsEightOrDouble ==
    last.op = "push_back" /\ last.ok =>
        /\ last.countIn = last.capIn /\ 2 * last.capIn < SizeMod
              => capacity(arr) = IF last.capIn = 0 THEN 8 ELSE 2 * last.capIn
        /\ last.countIn < last.capIn => capacity(arr) = last.capIn

\* a full Array of capacity 3 (made by resize) grew to 6 in push_back
C3_Witness ==
    /\ last.op = "push_back"
    /\ last.ok
    /\ last.countIn = 3
    /\ last.capIn = 3
    /\ capacity(arr) = 6
    /\ size(arr) = 4

\* C20: reserve(n) leaves size() and the elements at indices < size() as they
\* were (the elements being those the block holds) and capacity() >= n
\* afterwards; when capacity() >= n already, block and capacity stay as
\* they were.
C20_ReserveKeepsElements ==
    last.op = "reserve" /\ last.ok =>
        /\ size(arr) = last.countIn
        /\ Len(Elements(arr, mem)) >= Len(last.elemsIn)
        /\ \A i \in 1 .. Len(last.elemsIn) : Elements(arr, mem)[i] = last.elemsIn[i]
        /\ capacity(arr) >= last.arg
        /\ last.capIn >= last.arg
              => arr.block = last.blockIn /\ capacity(arr) = last.capIn

\* reserve moved two pushed elements into a larger block
C20_Witness ==
    /\ last.op = "reserve"
    /\ last.ok
    /\ last.countIn = 2
    /\ last.elemsIn = <<1, 1>>
    /\ last.arg > last.capIn
    /\ arr.block # last.blockIn
    /\ capacity(arr) = last.arg

\* ------------------------------------------------------------------------
\* The scanning primitives driven over one Buffer; as in a scan loop, each
\* is called only while cursor < size
\* ------------------------------------------------------------------------
\* a  1  .  "  \  newline  =
Alphabet == {97, 49, 46, 34, 92, 10, 61}

Texts == UNION {[1 .. n -> Alphabet] : n \in 0 .. MaxLen}

\* "=", "==" and "a1"
Words == {<<61>>, <<61, 61>>, <<97, 49>>}

\* r is what the primitive returned: the buffer, its result and, for the
\* parsers, the String or double and the allocator state
\* the indices a loop of the form while (cursor < size && ... Peek ...)
\* reads when it runs from cursor from and leaves the cursor at to
LoopReads(B, from, to) == {i \in from .. to : i < B.size}

\* the indices of B.data the primitive op reads when called on B and
\* leaving the buffer as out
ReadsOf(op, B, word, out) ==
    IF op = "SkipSingleLineComment"
    THEN {B.cursor}
           \cup (IF CharAt(B, B.cursor) = 92 THEN {B.cursor + 1} ELSE {})
           \cup (IF out.cursor # B.cursor
                 THEN LoopReads(B, B.cursor + 2, out.cursor) ELSE {})
    ELSE IF op = "CompareWordAndSkip"
    THEN IF Wrap(B.cursor + StringLength(word)) < B.size
         THEN {B.cursor + i : i \in {k \in 0 .. (StringLength(word) - 1) :
                  \A h \in 0 .. (k - 1) : CharAt(B, B.cursor + h) = word[h + 1]}}
         ELSE {}
    ELSE IF op = "ParseStringLiteral"
    THEN {B.cursor}
           \cup (IF out.cursor # B.cursor
                 THEN LoopReads(B, B.cursor + 1, out.cursor - 1) ELSE {})
    ELSE LoopReads(B, B.cursor, out.cursor)

\* the highest of them, -1 when nothing was read
HighestRead(reads) ==
    IF reads = {} THEN -1 ELSE CHOOSE i \in reads : \A k \in reads : k <= i

ScanCall(op, word, r) ==
    /\ buffer' = r.B
    /\ last' = [Call(op) EXCEPT !.ok = r.ok, !.cursorIn = buffer.cursor,
                                !.word = word,
                                !.maxRead = HighestRead(ReadsOf(op, buffer, word, r.B)),
                                !.elemsIn = Elements(arr, mem),
                                !.arrKept = (r.A = arr /\ Elements(r.A, r.M.mem)
                                                            = Elements(arr, mem)),
                                !.numberKept = (r.result = number)]
    /\ arr' = r.A
    /\ number' = r.result
    /\ SetMach(r.M)
    /\ UNCHANGED <<defaultAllocator, issued, pushed, calls, integer, lexResults, console, other, algoVars>>

\* a primitive that touches only the buffer
Skipped(B, ok) ==
    [B |-> B, ok |-> ok, A |-> arr, M |-> Mach, result |-> number]

SkipToNextLineCall ==
    /\ ~fatal
    /\ buffer.cursor < buffer.size
    /\ ScanCall("SkipToNextLine", << >>, Skipped(SkipToNextLine(buffer), TRUE))

SkipWhiteSpacesCall ==
    /\ ~fatal
    /\ buffer.cursor < buffer.size
    /\ ScanCall("SkipWhiteSpaces", << >>, Skipped(SkipWhiteSpaces(buffer), TRUE))

SkipSingleLineCommentCall ==
    /\ ~fatal
    /\ buffer.cursor < buffer.size
    /\ ScanCall("SkipSingleLineComment", << >>,
                Skipped(SkipSingleLineComment(buffer), TRUE))

CompareWordAndSkipCall(word) ==
    /\ ~fatal
    /\ buffer.cursor < buffer.size
    /\ ScanCall("CompareWordAndSkip", word,
                CompareWordAndSkip(buffer, word)
                    @@ [A |-> arr, M |-> Mach, result |-> number])

ParseIdentifierCall(crash) ==
    /\ ~fatal
    /\ buffer.cursor < buffer.size
    /\ ScanCall("ParseIdentifier", << >>,
                ParseIdentifier(buffer, arr, Mach, crash) @@ [result |-> number])

ParseStringLiteralCall(crash) ==
    /\ ~fatal
    /\ buffer.cursor < buffer.size
    /\ ScanCall("ParseStringLiteral", << >>,
                ParseStringLiteral(buffer, arr, Mach, crash) @@ [result |-> number])

ParseFloatCall(crash) ==
    /\ ~fatal
    /\ buffer.cursor < buffer.size
    /\ ScanCall("ParseFloat", << >>,
                ParseFloat(buffer, Mach, number, crash) @@ [A |-> arr])

InitScan ==
    \E text \in Texts : InitWith(ArrayArena, ArrayHeap, "malloc", text)

NextScan ==
    \/ SkipToNextLineCall
    \/ SkipWhiteSpacesCall
    \/ SkipSingleLineCommentCall
    \/ \E word \in Words : CompareWordAndSkipCall(word)
    \/ \E crash \in BOOLEAN : ParseIdentifierCall(crash)
    \/ \E crash \in BOOLEAN : ParseStringLiteralCall(crash)
    \/ \E crash \in BOOLEAN : ParseFloatCall(crash)

SpecScan == InitScan /\ [][NextScan]_vars

\* ------------------------------------------------------------------------
\* Properties of the scanning primitives (checked under SpecScan)
\* ------------------------------------------------------------------------
\* the text at index from starts with word
StartsWith(text, from, word) ==
    /\ from + Len(word) <= Len(text)
    /\ \A i \in 1 .. Len(word) : text[from + i] = word[i]

\* C9: every scanning primitive leaves the cursor non-decreasing and at
\* most size, whether it succeeds or fails.
C9_CursorWithinBuffer ==
    /\ buffer.cursor <= buffer.size
    /\ buffer.cursor >= last.cursorIn

\* C10: when the text at the cursor begins with word, CompareWordAndSkip
\* returns true and advances the cursor by the length of word.
C10_MatchingWordIsSkipped ==
    last.op = "CompareWordAndSkip"
        /\ StartsWith(buffer.data, last.cursorIn, last.word)
      => /\ last.ok
         /\ buffer.cursor = last.cursorIn + Len(last.word)

\* C12: when ParseFloat starts on a digit and meets a second '.', it
\* returns false, writes no value, and leaves the cursor on that second '.'.
RECURSIVE SecondDot(_, _, _)
SecondDot(text, i, dots) ==
    IF i >= Len(text) \/ ~(IsDigit(text[i + 1]) \/ text[i + 1] = 46) THEN Len(text) + 1
    ELSE IF text[i + 1] = 46 /\ dots = 1 THEN i
    ELSE SecondDot(text, i + 1, dots + (IF text[i + 1] = 46 THEN 1 ELSE 0))

C12_SecondDotFailsAtItsIndex ==
    last.op = "ParseFloat"
        /\ IsDigit(CharAt(buffer, last.cursorIn))
        /\ SecondDot(buffer.data, last.cursorIn, 0) <= Len(buffer.data)
      => /\ ~last.ok
         /\ ~fatal
         /\ last.numberKept
         /\ buffer.cursor = SecondDot(buffer.data, last.cursorIn, 0)

\* ParseFloat stopped on the second '.' of "1.." with the cursor at index 2
C12_Witness ==
    /\ last.op = "ParseFloat"
    /\ buffer.data = <<49, 46, 46>>
    /\ last.cursorIn = 0
    /\ buffer.cursor = 2
    /\ ~last.ok

\* ------------------------------------------------------------------------
\* ParseIdentifier and ParseStringLiteral writing into a String that the
\* caller has used before
\* ------------------------------------------------------------------------
\* a  1  _  "  =
ParseAlphabet == {97, 49, 95, 34, 61}

ParseTexts == UNION {[1 .. n -> ParseAlphabet] : n \in 0 .. MaxLen}

\* Append(result, 'b') by the caller, between two parses
AppendCall(crash) ==
    /\ ~fatal
    /\ size(arr) < MaxPrior
    /\ ScanCall("Append", << >>,
                [B |-> buffer, ok |-> TRUE, result |-> number]
                    @@ AppendChar(arr, Mach, 98, crash))

InitParse ==
    \E text \in ParseTexts : InitWith(ArrayArena, ArrayHeap, "malloc", text)

NextParse ==
    \/ \E crash \in BOOLEAN : AppendCall(crash)
    \/ \E crash \in BOOLEAN : ParseIdentifierCall(crash)
    \/ \E crash \in BOOLEAN : ParseStringLiteralCall(crash)

SpecParse == InitParse /\ [][NextParse]_vars

\* ------------------------------------------------------------------------
\* Properties of the parsers (checked under SpecParse)
\* ------------------------------------------------------------------------
\* the text matches [A-Za-z][A-Za-z0-9_]*
IsIdentifierText(text) ==
    /\ Len(text) >= 1
    /\ IsLetter(text[1])
    /\ \A i \in 1 .. Len(text) : IsLetterOrDigit(text[i]) \/ text[i] = 95

\* C13: on a text matching [A-Za-z][A-Za-z0-9_]*, ParseIdentifier at cursor
\* 0 returns true, leaves cursor = size and result equal to the text,
\* whatever result held before; when the first character is not a letter
\* it returns false and changes neither cursor nor result.
C13_IdentifierIsWholeText ==
    last.op = "ParseIdentifier" /\ last.cursorIn = 0 =>
        /\ IsIdentifierText(buffer.data)
              => /\ last.ok
                 /\ buffer.cursor = buffer.size
                 /\ size(arr) = Len(buffer.data)
                 /\ Elements(arr, mem) = buffer.data
        /\ ~IsLetter(CharAt(buffer, 0))
              => /\ ~last.ok
                 /\ buffer.cursor = 0
                 /\ last.arrKept

\* the identifier a_1 replaced the two characters result held before
C13_Witness ==
    /\ last.op = "ParseIdentifier"
    /\ last.cursorIn = 0
    /\ buffer.data = <<97, 95, 49>>
    /\ Len(last.elemsIn) = 2
    /\ last.ok
    /\ buffer.cursor = 3

\* the characters of text from index from up to the next double quote, or
\* up to the end of text when there is none
RECURSIVE UpToQuote(_, _)
UpToQuote(text, from) ==
    IF from >= Len(text) \/ text[from + 1] = 34 THEN << >>
    ELSE << text[from + 1] >> \o UpToQuote(text, from + 1)

\* C14: ParseStringLiteral on a double quote returns true and result is the
\* bytes between that quote and the next one, or all the remaining bytes
\* when no further quote exists.
C14_LiteralIsBytesUpToQuote ==
    last.op = "ParseStringLiteral" /\ CharAt(buffer, last.cursorIn) = 34 =>
        /\ last.ok
        /\ size(arr) = Len(UpToQuote(buffer.data, last.cursorIn + 1))
        /\ Elements(arr, mem) = UpToQuote(buffer.data, last.cursorIn + 1)

\* an unterminated literal of two bytes replaced what result held before
C14_Witness ==
    /\ last.op = "ParseStringLiteral"
    /\ buffer.data = <<34, 97, 61>>
    /\ last.cursorIn = 0
    /\ last.ok
    /\ Len(last.elemsIn) >= 1
    /\ size(arr) = 2

\* ------------------------------------------------------------------------
\* The text-to-number conversions applied to one C string, the text of
\* buffer
\* ------------------------------------------------------------------------
\* 0  3  5  .  -
NumberAlphabet == {48, 51, 53, 46, 45}

NumberTexts == UNION {[1 .. n -> NumberAlphabet] : n \in 0 .. MaxLen}

\* r is what the conversion returned
StringToFloatReturned(r) ==
    /\ number' = r.result
    /\ last' = [Call("StringToFloat") EXCEPT !.ok = r.ok,
                                             !.numberKept = (r.result = number)]

\* a call whose loop over the huge size_t power does not end never returns:
\* that behaviour is the one that stutters from here on
StringToFloatCall ==
    /\ ~fatal
    /\ StringToFloatReturned(StringToFloat(buffer.data, number))
    /\ UNCHANGED <<mem, heap, defaultAllocator, arena, offset, heapLive, fatal,
                   issued, arr, pushed, calls, buffer, integer, lexResults,
                   console, other, algoVars>>

StringToIntReturned(r) ==
    /\ integer' = r.result
    /\ last' = [Call("StringToInt") EXCEPT !.ok = r.ok]

StringToIntCall ==
    /\ ~fatal
    /\ StringToIntReturned(StringToInt(buffer.data, integer))
    /\ UNCHANGED <<mem, heap, defaultAllocator, arena, offset, heapLive, fatal,
                   issued, arr, pushed, calls, buffer, number, lexResults,
                   console, other, algoVars>>

InitConvert ==
    \E text \in NumberTexts : InitWith(SmallArena, SmallHeap, "malloc", text)

NextConvert ==
    \/ StringToFloatCall
    \/ StringToIntCall

SpecConvert == InitConvert /\ [][NextConvert]_vars

\* ------------------------------------------------------------------------
\* Properties of the conversions (checked under SpecConvert)
\* ------------------------------------------------------------------------
AllDigits(str) == \A i \in 1 .. Len(str) : IsDigit(str[i])

\* decimal digits with at most one '.', and at least one digit
IsNumeral(str) ==
    /\ \A i \in 1 .. Len(str) : IsDigit(str[i]) \/ str[i] = 46
    /\ \E i \in 1 .. Len(str) : IsDigit(str[i])
    /\ CountDots(str) <= 1

\* the number written by the digits of str, its '.' left out
RECURSIVE DigitsValue(_)
DigitsValue(str) ==
    IF str = << >> THEN 0
    ELSE IF str[Len(str)] = 46 THEN DigitsValue(SubSeq(str, 1, Len(str) - 1))
    ELSE 10 * DigitsValue(SubSeq(str, 1, Len(str) - 1)) + (str[Len(str)] - 48)

\* the number of digits after the '.'
FractionDigits(str) ==
    IF CountDots(str) = 0 THEN 0 ELSE Len(str) - DotIndex(str, 0) - 1

\* C11: for a numeral with at most one '.', StringToFloat returns true and
\* result is its decimal value: result * 10^(fraction digits) is the number
\* its digits write.
C11_StringToFloatIsDecimalValue ==
    last.op = "StringToFloat" /\ IsNumeral(buffer.data) =>
        /\ last.ok
        /\ ~number.inf
        /\ number.val * (10 ^ FractionDigits(buffer.data)) = DigitsValue(buffer.data)

\* C17: StringToInt returns -value(D) for '-' followed by the digits D, and
\* value(D) for the digits D alone.
C17_LeadingMinusIsSign ==
    last.op = "StringToInt" =>
        /\ (Len(buffer.data) >= 2 /\ Head(buffer.data) = 45
                /\ AllDigits(Tail(buffer.data))
              => last.ok /\ integer = 0 - DigitsValue(Tail(buffer.data)))
        /\ (Len(buffer.data) >= 1 /\ AllDigits(buffer.data)
              => last.ok /\ integer = DigitsValue(buffer.data))

\* ------------------------------------------------------------------------
\* The lexer entry points (AhmedLab.cpp) applied to one input text
\* ------------------------------------------------------------------------
\* #  space  \  newline  x
LexAlphabet == {35, 32, 92, 10, 120}

LexTexts == UNION {[1 .. n -> LexAlphabet] : n \in 0 .. MaxLen}

\* LexerResult result; result.success = false; result.errorLocation = 2;
Tokenize(B) == [LexerResult EXCEPT !.success = FALSE, !.errorLocation = 2]

\* the input, a newline, errorLocation spaces and the caret
ErrorLines(input, lexResult) ==
    input \o << 10 >> \o [i \in 1 .. lexResult.errorLocation |-> 32] \o << 94, 10 >>

\* what ProcessInput prints once Tokenize has returned lexResult
ProcessOutput(input, lexResult) ==
    IF ~lexResult.success THEN ErrorLines(input, lexResult) ELSE << >>

TokenizeCall ==
    /\ ~fatal
    /\ lexResults' = Tokenize(buffer)
    /\ last' = Call("Tokenize")
    /\ UNCHANGED <<mem, heap, defaultAllocator, arena, offset, heapLive, fatal,
                   issued, arr, pushed, calls, buffer, number, integer,
                   console, other, algoVars>>

ProcessInputCall ==
    /\ ~fatal
    /\ buffer' = CreateBufferFromString(buffer.data)
    /\ lexResults' = Tokenize(CreateBufferFromString(buffer.data))
    /\ console' = ProcessOutput(buffer.data, Tokenize(CreateBufferFromString(buffer.data)))
    /\ last' = Call("ProcessInput")
    /\ UNCHANGED <<mem, heap, defaultAllocator, arena, offset, heapLive, fatal,
                   issued, arr, pushed, calls, number, integer, other, algoVars>>

InitLex ==
    \E text \in LexTexts : InitWith(SmallArena, SmallHeap, "malloc", text)

NextLex ==
    \/ TokenizeCall
    \/ ProcessInputCall

SpecLex == InitLex /\ [][NextLex]_vars

\* ------------------------------------------------------------------------
\* Properties of the lexer (checked under SpecLex)
\* ------------------------------------------------------------------------
\* the buffer after every leading whitespace character and line comment
RECURSIVE SkipBlanks(_)
SkipBlanks(B) ==
    IF SkipSingleLineComment(SkipWhiteSpaces(B)).cursor = B.cursor THEN B
    ELSE SkipBlanks(SkipSingleLineComment(SkipWhiteSpaces(B)))

\* the text holds nothing but whitespace and line comments
OnlyBlanks(text) ==
    SkipBlanks(CreateBufferFromString(text)).cursor >= Len(text)

Lexed == last.op \in {"Tokenize", "ProcessInput"}

\* C15: Tokenize on an input that is empty or holds only whitespace and
\* line comments reports success with zero tokens.
C15_BlankInputSucceeds ==
    Lexed /\ OnlyBlanks(buffer.data) =>
        /\ lexResults.success
        /\ lexResults.tokens = << >>

\* C16: a failure of Tokenize reports an errorLocation inside the input, 0
\* for the input "#", and ProcessInput prints the caret under that column.
C16_ErrorLocationInsideInput ==
    Lexed /\ ~lexResults.success =>
        /\ lexResults.errorLocation < buffer.size
        /\ (buffer.data = << 35 >> => lexResults.errorLocation = 0)
        /\ (last.op = "ProcessInput"
              => console = ErrorLines(buffer.data, lexResults))

\* ------------------------------------------------------------------------
\* Two Arrays, arr and other, driven by a caller that pushes, writes, moves
\* and copies; who names the Array a call is made on or reads from
\* ------------------------------------------------------------------------
Receiver(who) == IF who = "arr" THEN arr ELSE other

\* r holds both Arrays and the allocator state after the call
PairCall(op, who, arg, r) ==
    /\ arr' = r.arr
    /\ other' = r.other
    /\ SetMach(r.M)
    /\ last' = [Call(op) EXCEPT
                   !.who = who, !.arg = arg, !.ok = ~r.M.fatal,
                   !.srcIn = Receiver(who),
                   !.blockIn = Receiver(who).block,
                   !.countIn = size(Receiver(who)),
                   !.capIn = capacity(Receiver(who)),
                   !.elemsIn = Elements(Receiver(who), mem),
                   !.peerKept = IF who = "arr"
                                THEN r.other = other
                                     /\ Elements(r.other, r.M.mem) = Elements(other, mem)
                                ELSE r.arr = arr
                                     /\ Elements(r.arr, r.M.mem) = Elements(arr, mem)]
    /\ calls' = calls + 1
    /\ UNCHANGED <<defaultAllocator, issued, pushed, buffer, number, integer,
                   lexResults, console, algoVars>>

\* the call changed the Array named who into r.A
On(who, r) ==
    IF who = "arr" THEN [arr |-> r.A, other |-> other, M |-> r.M]
                   ELSE [arr |-> arr, other |-> r.A, M |-> r.M]

\* the call made the Array opposite to who into r.A
Onto(who, r) ==
    IF who = "arr" THEN [arr |-> arr, other |-> r.A, M |-> r.M]
                   ELSE [arr |-> r.A, other |-> other, M |-> r.M]

\* the move left its source, the Array named who, as r.S and its target as r.D
Moved(who, r) ==
    IF who = "arr" THEN [arr |-> r.S, other |-> r.D, M |-> Mach]
                   ELSE [arr |-> r.D, other |-> r.S, M |-> Mach]

Constructed(A) == A.allocator # "none"

PushBackOn(who, d, crash) ==
    /\ ~fatal
    /\ calls < MaxPairCalls
    /\ Constructed(Receiver(who))
    /\ PairCall("push_back", who, d, On(who, push_back(Receiver(who), Mach, d, crash)))

WriteOn(who, i, v, crash) ==
    /\ ~fatal
    /\ calls < MaxPairCalls
    /\ Constructed(Receiver(who))
    /\ PairCall("write", who, i, On(who, WriteElement(Receiver(who), Mach, i, v, crash)))

\* Array other; (Array() = default)
DefaultConstructCall ==
    /\ ~fatal
    /\ calls < MaxPairCalls
    /\ ~Constructed(other)
    /\ PairCall("Array", "other", 0,
                [arr |-> arr, other |-> DefaultArray(defaultAllocator), M |-> Mach])

\* other goes out of scope
DestroyCall ==
    /\ ~fatal
    /\ calls < MaxPairCalls
    /\ Constructed(other)
    /\ PairCall("~Array", "other", 0,
                [arr |-> arr, other |-> Unconstructed, M |-> DestroyArray(other, Mach)])

\* Array other(std::move(arr));
MoveConstructCall ==
    /\ ~fatal
    /\ calls < MaxPairCalls
    /\ ~Constructed(other)
    /\ PairCall("MoveConstruct", "arr", 0, Moved("arr", MoveConstruct(arr)))

\* other = std::move(arr); or arr = std::move(other);
MoveAssignCall(who) ==
    /\ ~fatal
    /\ calls < MaxPairCalls
    /\ Constructed(other)
    /\ PairCall("MoveAssign", who, 0,
                Moved(who, IF who = "arr" THEN MoveAssign(other, arr)
                                          ELSE MoveAssign(arr, other)))

\* Array other(arr);
CopyConstructCall(crash) ==
    /\ ~fatal
    /\ calls < MaxPairCalls
    /\ ~Constructed(other)
    /\ PairCall("CopyConstruct", "arr", 0, Onto("arr", CopyConstruct(arr, Mach, crash)))

\* other = arr; or arr = other;
CopyAssignCall(who, crash) ==
    /\ ~fatal
    /\ calls < MaxPairCalls
    /\ Constructed(other)
    /\ PairCall("CopyAssign", who, 0,
                Onto(who, IF who = "arr" THEN CopyAssign(other, arr, Mach, crash)
                                         ELSE CopyAssign(arr, other, Mach, crash)))

Sides == {"arr", "other"}

InitPair ==
    \E allocator \in {"linear", "malloc"} :
        InitWith(ArrayArena, ArrayHeap, allocator, << >>)

NextMove ==
    \/ \E who \in Sides, crash \in BOOLEAN : PushBackOn(who, 1, crash)
    \/ DefaultConstructCall
    \/ DestroyCall
    \/ MoveConstructCall
    \/ \E who \in Sides : MoveAssignCall(who)

SpecMove == InitPair /\ [][NextMove]_vars

NextCopy ==
    \/ \E who \in Sides, crash \in BOOLEAN :
          PushBackOn(who, IF who = "arr" THEN 1 ELSE 2, crash)
    \/ \E who \in Sides, crash \in BOOLEAN : WriteOn(who, 0, 3, crash)
    \/ DestroyCall
    \/ \E crash \in BOOLEAN : CopyConstructCall(crash)
    \/ \E who \in Sides, crash \in BOOLEAN : CopyAssignCall(who, crash)

SpecCopy == InitPair /\ [][NextCopy]_vars

\* ------------------------------------------------------------------------
\* Properties of moves and copies
\* ------------------------------------------------------------------------
\* the source and the target of the last move or copy, as they are now
Source == IF last.who = "arr" THEN arr ELSE other

Target == IF last.who = "arr" THEN other ELSE arr

\* C18: after a move the target holds the source's former block, count and
\* allocator, the source is empty with a null block, and in every state no
\* block is referenced by both Arrays.
C18_MoveTransfersBlock ==
    /\ last.op \in {"MoveConstruct", "MoveAssign"} =>
          /\ Target.block = last.srcIn.block
          /\ Target.count = last.srcIn.count
          /\ Target.allocator = last.srcIn.allocator
          /\ size(Source) = 0
          /\ capacity(Source) = 0
          /\ Source.block = MemoryBlock
    /\ arr.block.data # NULL => arr.block.data # other.block.data

\* other, which held a block of its own, took over the block and the
\* element of arr by move assignment
C18_Witness ==
    /\ last.op = "MoveAssign"
    /\ last.who = "arr"
    /\ last.srcIn.block.data # NULL
    /\ last.srcIn.count = 1
    /\ other.block = last.srcIn.block
    /\ Cardinality(heapLive) = 2

\* the block was obtained from the allocator
ObtainedFrom(allocator, block) ==
    IF allocator = "linear"
    THEN block.data >= arena.data /\ block.data + block.size <= arena.data + arena.size
    ELSE block \in heapLive

\* C19 as stated: after a copy the target has the source's size and
\* elements and a different block from the source's allocator, and a later
\* push_back or element write on one Array is not observable through the
\* other.
C19_CopyIsDeepAndDifferentBlock ==
    /\ last.op \in {"CopyConstruct", "CopyAssign"} /\ last.ok =>
          /\ size(Target) = size(Source)
          /\ Elements(Target, mem) = Elements(Source, mem)
          /\ Target.allocator = Source.allocator
          /\ ObtainedFrom(Source.allocator, Target.block)
          /\ Target.block # Source.block
    /\ last.op \in {"push_back", "write"} /\ last.ok => last.peerKept

\* C19 amended: the target's block has the size of the source's block and
\* shares no byte with it (both are the same empty range when an empty
\* block is copied on a LinearAllocator); the rest as stated.
C19_CopyIsDeepAndDisjoint ==
    /\ last.op \in {"CopyConstruct", "CopyAssign"} /\ last.ok =>
          /\ size(Target) = size(Source)
          /\ Elements(Target, mem) = Elements(Source, mem)
          /\ Target.allocator = Source.allocator
          /\ ObtainedFrom(Source.allocator, Target.block)
          /\ Target.block.size = Source.block.size
          /\ BlockBytes(Target.block) \cap BlockBytes(Source.block) = {}
    /\ last.op \in {"push_back", "write"} /\ last.ok => last.peerKept

\* arr was copied into other, and other's element 0 was then overwritten
\* while arr kept its own
C19_Witness ==
    /\ last.op = "write"
    /\ last.who = "other"
    /\ last.ok
    /\ size(arr) >= 1
    /\ size(other) = size(arr)
    /\ Index(arr, mem, 0) = 1
    /\ Index(other, mem, 0) = 3
    /\ last.prevOp \in {"CopyConstruct", "CopyAssign"}

\* the live Arrays: arr, and other between its construction and destruction
LiveArrays == {arr} \cup (IF Constructed(other) THEN {other} ELSE {})

\* how many live Arrays hold the block b
Owners(b) ==
    (IF arr.block = b THEN 1 ELSE 0)
        + (IF Constructed(other) /\ other.block = b THEN 1 ELSE 0)

\* C27: after any sequence of constructions, push_back growth, copies,
\* assignments (also onto an Array that owns a block) and destructions,
\* every block allocated for an Array and not yet deallocated is owned by
\* exactly one live Array, and every block a live Array owns is still
\* allocated: no block is orphaned and none is freed twice.
C27_EveryBlockOwnedOnce ==
    defaultAllocator = "malloc" =>
        /\ \A b \in heapLive : Owners(b) = 1
        /\ \A A \in LiveArrays : A.block.data # NULL => A.block \in heapLive

\* C28: called on a Buffer with cursor < size, each scanning primitive reads
\* buffer.data only at indices strictly below buffer.size, whatever the text,
\* also when its last character is a backslash.
C28_ReadsBelowSize ==
    last.op \in {"SkipSingleLineComment", "SkipWhiteSpaces", "SkipToNextLine",
                 "CompareWordAndSkip", "ParseIdentifier", "ParseStringLiteral",
                 "ParseFloat"}
        => last.maxRead < buffer.size

\* ------------------------------------------------------------------------
\* One Array read through operator[]
\* ------------------------------------------------------------------------
\* r is what operator[](i) returned
Subscripted(i, r) ==
    /\ SetMach(r.M)
    /\ last' = [Call("operator[]") EXCEPT !.arg = i, !.ok = ~r.M.fatal,
                   !.countIn = size(arr), !.capIn = capacity(arr),
                   !.blockIn = arr.block, !.elemsIn = Elements(arr, mem),
                   !.value = r.value]
    /\ calls' = calls + 1
    /\ UNCHANGED <<defaultAllocator, issued, arr, pushed, buffer, number, integer, lexResults, console, other, algoVars>>

SubscriptCall(i, crash) ==
    /\ ~fatal
    /\ calls < MaxCalls
    /\ Subscripted(i, ReadElement(arr, Mach, i, crash))

NextIndex ==
    \/ \E d \in PushValues, crash \in BOOLEAN : PushBackCall(d, crash)
    \/ PopBackCall
    \/ \E s \in 0 .. MaxReserve, crash \in BOOLEAN : ReserveCall(s, crash)
    \/ \E i \in 0 .. MaxReserve, crash \in BOOLEAN : SubscriptCall(i, crash)

SpecIndex == InitArray /\ [][NextIndex]_vars

\* C21: operator[](i) never returns an element when i >= size(): it ends in
\* the assertion, also for size() <= i < capacity(); for an i below size() it
\* returns the element stored at position i of the backing block.
C21_SubscriptAssertsBelowSize ==
    last.op = "operator[]" =>
        /\ (last.arg >= last.countIn => fatal /\ ~last.ok)
        /\ (last.ok /\ last.arg < Len(last.elemsIn) =>
                last.value = last.elemsIn[last.arg + 1])

\* an index between size() and capacity() was refused
C21_Witness ==
    /\ last.op = "operator[]"
    /\ last.arg >= last.countIn
    /\ last.arg < last.capIn
    /\ last.countIn > 0
    /\ fatal

\* ------------------------------------------------------------------------
\* General algorithms (Gedo.h); an array T* p is the sequence of its
\* elements, p[k] of the code is q[k + 1], and b is how far p was advanced
\* ------------------------------------------------------------------------
\* Swap(p[a], p[c])
Swap(q, a, c) == [q EXCEPT ![a + 1] = q[c + 1], ![c + 1] = q[a + 1]]

\* the median of p[0], p[size >> 1] and p[size - 1] swapped to p[size >> 1]
MedianOfThree(q, b, n) ==
    IF (q[b + 1] < q[b + (n \div 2) + 1])
           # (q[b + (n \div 2) + 1] < q[b + n])
    THEN Swap(q,
              b + (IF (q[b + 1] < q[b + n])
                          = (q[b + (n \div 2) + 1] < q[b + n])
                   THEN 0 ELSE n - 1),
              b + (n \div 2))
    ELSE q

\* for (;; ++i) if (!compare(p[i], p[0])) break;
RECURSIVE ScanUp(_, _, _)
ScanUp(q, b, i) ==
    IF ~(q[b + i + 1] < q[b + 1]) THEN i ELSE ScanUp(q, b, i + 1)

\* for (;; --j) if (!compare(p[0], p[j])) break;
RECURSIVE ScanDown(_, _, _)
ScanDown(q, b, j) ==
    IF ~(q[b + 1] < q[b + j + 1]) THEN j ELSE ScanDown(q, b, j - 1)

\* the partition loop from i and j on
RECURSIVE Partition(_, _, _, _)
\* the rest of one round once the two scans have stopped at i and j
Crossed(q, b, i, j) ==
    IF i >= j
    THEN [p |-> q, i |-> i, j |-> j]
    ELSE Partition(Swap(q, b + i, b + j), b, i + 1, j - 1)

Partition(q, b, i, j) == Crossed(q, b, ScanUp(q, b, i), ScanDown(q, b, j))

RECURSIVE QuickSort(_, _, _)
\* recurse on the smaller side, iterate on the larger; r is the partition
SortSides(r, b, n) ==
    IF r.j < n - r.i
    THEN QuickSort(QuickSort(r.p, b, r.j), b + r.i, n - r.i)
    ELSE QuickSort(QuickSort(r.p, b + r.i, n - r.i), b, r.j)

\* QuickSort(p + b, size) with the default comparator a < b
QuickSort(q, b, n) ==
    IF n > 12
    THEN SortSides(Partition(Swap(MedianOfThree(q, b, n), b, b + (n \div 2)),
                             b, 1, n - 1),
                   b, n)
    ELSE q

\* the rest of BinarySearch's loop body once mid is known; an index at or
\* beyond size is a read outside the array
RECURSIVE SearchLoop(_, _, _, _, _)
SearchAt(q, n, key, low, high, mid) ==
    IF mid >= n
    THEN [index |-> mid, oob |-> TRUE]
    ELSE IF q[mid + 1] = key
    THEN [index |-> mid, oob |-> FALSE]
    ELSE IF q[mid + 1] < key
    THEN SearchLoop(q, n, key, Wrap(mid + 1), high)
    ELSE SearchLoop(q, n, key, low, Wrap(mid + SizeMod - 1))

\* while (low <= high)
SearchLoop(q, n, key, low, high) ==
    IF low <= high
    THEN SearchAt(q, n, key, low, high, low + ((high - low) \div 2))
    ELSE [index |-> -1, oob |-> FALSE]

\* BinarySearch(p, size, key) with the default compare and predicate
BinarySearch(q, n, key) ==
    SearchLoop(q, n, key, 0, Wrap(n + SizeMod - 1))

\* ------------------------------------------------------------------------
\* QuickSort called on an array
\* ------------------------------------------------------------------------
SortValues == {1, 2}

RECURSIVE Arrays(_, _)
\* the arrays of at most n elements drawn from values
Arrays(values, n) ==
    IF n = 0 THEN {<< >>}
    ELSE Arrays(values, n - 1) \cup [1 .. n -> values]

AlgoInit(arrays) ==
    /\ InitMachine(SmallArena, SmallHeap, "malloc", << >>)
    /\ pArray \in arrays
    /\ found = [index |-> 0, oob |-> FALSE]
    /\ strings = << >>
    /\ state = [vars |-> << >>, varsCount |-> 0]
    /\ matrix = [rows |-> 0, cols |-> 0, data |-> "NULL"]

QuickSortCall ==
    /\ ~fatal
    /\ last.op = "none"
    /\ pArray' = QuickSort(pArray, 0, Len(pArray))
    /\ last' = [Call("QuickSort") EXCEPT !.arg = Len(pArray), !.elemsIn = pArray]
    /\ UNCHANGED <<mem, heap, defaultAllocator, arena, offset, heapLive, fatal,
                   issued, arr, pushed, calls, buffer, number, integer,
                   lexResults, console, other, found, strings, state, matrix>>

InitSort == AlgoInit(Arrays(SortValues, MaxSortLen))

NextSort == QuickSortCall

SpecSort == InitSort /\ [][NextSort]_vars

Ascending(q) == \A i \in 1 .. (Len(q) - 1) : q[i] <= q[i + 1]

Occurrences(q, v) == Cardinality({i \in 1 .. Len(q) : q[i] = v})

\* C24: after QuickSort(p, size) with the default comparator p[0..size) is
\* in ascending order and a permutation of what it was, for every array
\* and every size.
C24_QuickSortSorts ==
    last.op = "QuickSort" =>
        /\ Ascending(pArray)
        /\ Len(pArray) = Len(last.elemsIn)
        /\ \A v \in SortValues : Occurrences(pArray, v) = Occurrences(last.elemsIn, v)

\* ------------------------------------------------------------------------
\* BinarySearch called on an array
\* ------------------------------------------------------------------------
SearchValues == {1, 2, 3}

SearchKeys == 0 .. 4

\* r is what the loop came to; a read outside the array is undefined: the
\* process dies in it, or the search goes on over what it read there and
\* returns that index or -1
Searched(key, r, crash, hit) ==
    /\ found' = IF r.oob /\ ~hit THEN [r EXCEPT !.index = -1] ELSE r
    /\ fatal' = (r.oob /\ crash)
    /\ last' = [Call("BinarySearch") EXCEPT !.arg = key, !.ok = ~(r.oob /\ crash)]
    /\ UNCHANGED <<mem, heap, defaultAllocator, arena, offset, heapLive,
                   issued, arr, pushed, calls, buffer, number, integer,
                   lexResults, console, other, pArray, strings, state, matrix>>

BinarySearchCall(key, crash, hit) ==
    /\ ~fatal
    /\ Searched(key, BinarySearch(pArray, Len(pArray), key), crash, hit)

InitSearch == AlgoInit(Arrays(SearchValues, MaxSearchLen))

NextSearch ==
    \E key \in SearchKeys, crash \in BOOLEAN, hit \in BOOLEAN :
        BinarySearchCall(key, crash, hit)

SpecSearch == InitSearch /\ [][NextSearch]_vars

Occurs(q, key) == \E i \in 1 .. Len(q) : q[i] = key

\* C25: on an ascending array of size n >= 0 BinarySearch terminates, reads
\* only indices below n, returns an index holding key when key occurs and
\* -1 when it does not, also for a key below every element and for n = 0.
C25_BinarySearchFinds ==
    last.op = "BinarySearch" /\ Ascending(pArray) =>
        /\ ~found.oob
        /\ ~fatal
        /\ (Occurs(pArray, last.arg) =>
                /\ found.index \in 0 .. (Len(pArray) - 1)
                /\ pArray[found.index + 1] = last.arg)
        /\ (~Occurs(pArray, last.arg) => found.index = -1)

\* ------------------------------------------------------------------------
\* ConcatStrings (Gedo.cpp); a String argument is the sequence of its
\* characters, the result is an Array in memory
\* ------------------------------------------------------------------------
\* the loop of Append(string, s, length) from character i on
RECURSIVE AppendChars(_, _, _, _)
AppendChars(r, s, i, crash) ==
    IF r.M.fatal \/ i > Len(s) THEN r
    ELSE AppendChars(AppendChar(r.A, r.M, s[i], crash), s, i + 1, crash)

\* Append(string, s): reserve(size() + length), then one Append per character
AppendString(r, s, crash) ==
    IF r.M.fatal THEN r
    ELSE AppendChars(reserve(r.A, r.M, Wrap(size(r.A) + Len(s)), crash), s, 1, crash)

\* if (addSeperator && i != stringsCount - 1) Append(result, seperator)
AppendSeperator(r, seperator, add, crash) ==
    IF add /\ ~r.M.fatal THEN AppendChar(r.A, r.M, seperator, crash) ELSE r

RECURSIVE SumSizesOf(_)
\* the first loop: resultSize += strings[i].size()
SumSizesOf(strs) ==
    IF strs = << >> THEN 0 ELSE Wrap(Len(Head(strs)) + SumSizesOf(Tail(strs)))

\* resultSize, with stringsCount - 1 added for the separators
ResultSize(strs, seperator) ==
    IF seperator # 0
    THEN Wrap(SumSizesOf(strs) + Wrap(Len(strs) + SizeMod - 1))
    ELSE SumSizesOf(strs)

\* the second loop from string i on
RECURSIVE ConcatLoop(_, _, _, _, _)
ConcatLoop(r, strs, i, seperator, crash) ==
    IF i >= Len(strs) THEN r
    ELSE ConcatLoop(
             AppendSeperator(AppendString(r, strs[i + 1], crash), seperator,
                             seperator # 0 /\ i # Wrap(Len(strs) + SizeMod - 1),
                             crash),
             strs, i + 1, seperator, crash)

ConcatStrings(strs, seperator, M, allocator, crash) ==
    ConcatLoop(reserve(DefaultArray(allocator), M, ResultSize(strs, seperator), crash),
               strs, 0, seperator, crash)

ConcatChars == {97, 98}

Seperators == {0, 44}

ConcatStringsCall(seperator, crash) ==
    /\ ~fatal
    /\ last.op = "none"
    /\ ArrayCall("ConcatStrings", seperator,
                 ConcatStrings(strings, seperator, Mach, defaultAllocator, crash))
    /\ UNCHANGED pushed

InitConcat ==
    \E allocator \in {"linear", "malloc"} :
        /\ InitMachine(ArrayArena, ArrayHeap, allocator, << >>)
        /\ strings \in Arrays(Arrays(ConcatChars, MaxStringLen), MaxStrings)
        /\ pArray = << >>
        /\ found = [index |-> 0, oob |-> FALSE]
        /\ state = [vars |-> << >>, varsCount |-> 0]
        /\ matrix = [rows |-> 0, cols |-> 0, data |-> "NULL"]

NextConcat ==
    \E seperator \in Seperators, crash \in BOOLEAN :
        ConcatStringsCall(seperator, crash)

SpecConcat == InitConcat /\ [][NextConcat]_vars

RECURSIVE Joined(_, _)
\* s_1 c s_2 c ... c s_n, and s_1 s_2 ... s_n when c is 0
Joined(strs, c) ==
    IF strs = << >> THEN << >>
    ELSE IF Len(strs) = 1 THEN Head(strs)
    ELSE Head(strs) \o (IF c # 0 THEN << c >> ELSE << >>) \o Joined(Tail(strs), c)

RECURSIVE TotalLength(_)
TotalLength(strs) ==
    IF strs = << >> THEN 0 ELSE Len(Head(strs)) + TotalLength(Tail(strs))

\* C26: for strings s_1..s_n, any n, and a separator c # 0 ConcatStrings
\* returns s_1 c s_2 c ... c s_n, the separator only between consecutive
\* strings; with c = 0 it returns the plain concatenation.
C26_ConcatJoinsWithSeperator ==
    last.op = "ConcatStrings" =>
        /\ ~fatal
        /\ Elements(arr, mem) = Joined(strings, last.arg)
        /\ size(arr) = TotalLength(strings)
                          + (IF last.arg # 0 /\ Len(strings) > 0
                             THEN Len(strings) - 1 ELSE 0)

\* ------------------------------------------------------------------------
\* Matrix (Gedo.cpp, AhmedLab.cpp); data is where the pointer points: "NULL",
\* "stackBuffer" (the stackBuffer of the object itself), "foreign" (the
\* stackBuffer of another Matrix object) or "heap" (a block from Allocate)
\* ------------------------------------------------------------------------
stackBufferSize == 9

CreateMatrix(rows, cols) ==
    [rows |-> rows, cols |-> cols,
     data |-> IF Wrap(rows * cols) <= stackBufferSize THEN "stackBuffer" ELSE "heap"]

\* the index At(m, i, j) applies to m.data
At(m, i, j) == Wrap(m.rows * i + j)

\* a Matrix copied member by member, as passing by value and assignment do:
\* a pointer to the original's stackBuffer still points there
CopyMatrix(m) == IF m.data = "stackBuffer" THEN [m EXCEPT !.data = "foreign"] ELSE m

\* FreeMatrix(m): free() is handed every pointer that is neither NULL nor
\* m.stackBuffer; for one that malloc did not return that is undefined, and
\* the process dies in free or survives it
FreeMatrix(m, crash) ==
    IF m.data # "NULL" /\ m.data # "stackBuffer"
    THEN [m |-> [m EXCEPT !.data = "NULL"], fatal |-> (m.data # "heap" /\ crash)]
    ELSE [m |-> m, fatal |-> FALSE]

\* ------------------------------------------------------------------------
\* At called on a Matrix made by CreateMatrix
\* ------------------------------------------------------------------------
AtCall(i, j) ==
    /\ ~fatal
    /\ i < matrix.rows
    /\ j < matrix.cols
    /\ last' = [Call("At") EXCEPT !.arg = i, !.countIn = j, !.value = At(matrix, i, j)]
    /\ UNCHANGED <<mem, heap, defaultAllocator, arena, offset, heapLive, fatal,
                   issued, arr, pushed, calls, buffer, number, integer,
                   lexResults, console, other, algoVars>>

InitMatrix ==
    /\ InitMachine(SmallArena, SmallHeap, "malloc", << >>)
    /\ pArray = << >>
    /\ found = [index |-> 0, oob |-> FALSE]
    /\ strings = << >>
    /\ state = [vars |-> << >>, varsCount |-> 0]
    /\ \E rows \in 1 .. MaxDim, cols \in 1 .. MaxDim : matrix = CreateMatrix(rows, cols)

NextMatrix == \E i \in 0 .. (MaxDim - 1), j \in 0 .. (MaxDim - 1) : AtCall(i, j)

SpecMatrix == InitMatrix /\ [][NextMatrix]_vars

\* C30: for a Matrix made by CreateMatrix(rows, cols) and every i < rows,
\* j < cols, At(m, i, j) addresses an element index inside [0, rows * cols),
\* and no other pair (i, j) addresses the same element, whatever the shape.
C30_AtIsInsideAndInjective ==
    last.op = "At" =>
        /\ last.value < matrix.rows * matrix.cols
        /\ \A i \in 0 .. (matrix.rows - 1), j \in 0 .. (matrix.cols - 1) :
              At(matrix, i, j) = last.value => i = last.arg /\ j = last.countIn

\* ------------------------------------------------------------------------
\* The variable store (AhmedLab.cpp); a name is the sequence of its
\* characters, FindVariable returns the index of the Variable or -1 for NULL
\* ------------------------------------------------------------------------
CompareStrings(s0, s1) ==
    IF StringLength(s0) = StringLength(s1)
    THEN \A i \in 1 .. StringLength(s0) : s0[i] = s1[i]
    ELSE FALSE

DuplicateString(text) == [i \in 1 .. StringLength(text) |-> text[i]]

\* Variable{}
DefaultVariable == [name |-> << >>, value |-> [rows |-> 0, cols |-> 0, data |-> "NULL"]]

\* State{}
DefaultState == [vars |-> [i \in 1 .. MAX_VARIABLES |-> DefaultVariable], varsCount |-> 0]

FindVariable(st, name) ==
    IF \E i \in 0 .. (st.varsCount - 1) : CompareStrings(name, st.vars[i + 1].name)
    THEN CHOOSE i \in 0 .. (st.varsCount - 1) :
             /\ CompareStrings(name, st.vars[i + 1].name)
             /\ \A k \in 0 .. (i - 1) : ~CompareStrings(name, st.vars[k + 1].name)
    ELSE -1

\* the branch of AddVariable for a name found at index i; f is what
\* FreeMatrix(var->value) came to
Replaced(st, i, data, f) ==
    IF f.fatal THEN [S |-> st, fatal |-> TRUE]
    ELSE [S |-> [st EXCEPT !.vars[i + 1].value = CopyMatrix(data)], fatal |-> FALSE]

\* the branch for a new name: state.vars[state.varsCount++] = newVar; a
\* store behind the last slot is undefined
Appended(st, name, data, crash) ==
    IF st.varsCount < MAX_VARIABLES
    THEN [S |-> [st EXCEPT !.vars[st.varsCount + 1] =
                               [name |-> DuplicateString(name),
                                value |-> CopyMatrix(data)],
                           !.varsCount = st.varsCount + 1],
          fatal |-> FALSE]
    ELSE [S |-> [st EXCEPT !.varsCount = st.varsCount + 1], fatal |-> crash]

\* the rest of AddVariable once FindVariable has returned i
AddAt(st, name, data, i, crash) ==
    IF i # -1
    THEN Replaced(st, i, data, FreeMatrix(st.vars[i + 1].value, crash))
    ELSE Appended(st, name, data, crash)

AddVariable(st, name, data, crash) ==
    AddAt(st, name, data, FindVariable(st, name), crash)

\* the rest of DeleteVariable for a name found at index i: the Variable
\* goes to the last slot, f is what FreeMatrix(lastVar.value) came to there
Removed(st, i, f) ==
    IF f.fatal THEN [S |-> st, fatal |-> TRUE]
    ELSE [S |-> [st EXCEPT !.vars[i + 1] = st.vars[st.varsCount],
                           !.vars[st.varsCount] = [name |-> st.vars[i + 1].name,
                                                   value |-> f.m],
                           !.varsCount = st.varsCount - 1],
          fatal |-> FALSE]

\* the rest of DeleteVariable once FindVariable has returned i
DeleteAt(st, i, crash) ==
    IF i # -1
    THEN Removed(st, i, FreeMatrix(st.vars[i + 1].value, crash))
    ELSE [S |-> st, fatal |-> FALSE]

DeleteVariable(st, name, crash) == DeleteAt(st, FindVariable(st, name), crash)

StoreNames == {<<97>>, <<98>>, <<97, 98>>}

StoreShapes == {<<1, 1>>, <<1, 2>>, <<4, 4>>}

\* no Variable under this name
Absent == [rows |-> 0, cols |-> 0, data |-> "absent"]

\* what FindVariable(name)->value is for every name
Lookup(st) ==
    [name \in StoreNames |->
        IF FindVariable(st, name) = -1 THEN Absent
        ELSE st.vars[FindVariable(st, name) + 1].value]

\* r is what the call came to
StoreCall(op, name, data, r) ==
    /\ state' = r.S
    /\ fatal' = r.fatal
    /\ last' = [Call(op) EXCEPT !.word = name, !.ok = ~r.fatal,
                                !.mapIn = Lookup(state), !.added = CopyMatrix(data)]
    /\ UNCHANGED <<mem, heap, defaultAllocator, arena, offset, heapLive,
                   issued, arr, pushed, calls, buffer, number, integer,
                   lexResults, console, other, pArray, found, strings, matrix>>

\* AddVariable(state, name, CreateMatrix(rows, cols))
AddVariableCall(name, shape, crash) ==
    /\ ~fatal
    /\ StoreCall("AddVariable", name, CreateMatrix(shape[1], shape[2]),
                 AddVariable(state, name, CopyMatrix(CreateMatrix(shape[1], shape[2])), crash))

DeleteVariableCall(name, crash) ==
    /\ ~fatal
    /\ StoreCall("DeleteVariable", name, CreateMatrix(0, 0),
                 DeleteVariable(state, name, crash))

InitStore ==
    /\ InitMachine(SmallArena, SmallHeap, "malloc", << >>)
    /\ pArray = << >>
    /\ found = [index |-> 0, oob |-> FALSE]
    /\ strings = << >>
    /\ state = DefaultState
    /\ matrix = [rows |-> 0, cols |-> 0, data |-> "NULL"]

NextStore ==
    \/ \E name \in StoreNames, shape \in StoreShapes, crash \in BOOLEAN :
          AddVariableCall(name, shape, crash)
    \/ \E name \in StoreNames, crash \in BOOLEAN : DeleteVariableCall(name, crash)

SpecStore == InitStore /\ [][NextStore]_vars

\* C29: the store is a map from names to values: FindVariable(name) returns
\* a Variable iff the name was added and not deleted since, its value is the
\* one added last under the name, no two of vars[0 .. varsCount) share a
\* name, and a deletion leaves the value of every other name as it was.
C29_StoreIsAMap ==
    /\ \A i, j \in 1 .. state.varsCount :
          i # j => state.vars[i].name # state.vars[j].name
    /\ (last.op = "AddVariable" =>
            /\ ~fatal
            /\ Lookup(state) = [last.mapIn EXCEPT ![last.word] = last.added])
    /\ (last.op = "DeleteVariable" =>
            /\ ~fatal
            /\ Lookup(state) = [last.mapIn EXCEPT ![last.word] = Absent])

====
